---- MODULE Spec2Model ----
(***************************************************************************)
(* The lead submission pipeline of StratovaBuilds:                         *)
(*   - LeadForm (client): field values, validation, readiness, submit      *)
(*   - POST /api/book-call (server): key check, required-field check,      *)
(*     relay to the email provider, response                               *)
(* Text is a sequence of one-character strings, so that trim, the regular  *)
(* expressions and the phone mask are computed character by character.     *)
(***************************************************************************)
EXTENDS Integers, Sequences, FiniteSets, TLC

VARIABLES
    values,        \* LeadForm: useState<FormValues>
    errors,        \* LeadForm: useState<FormErrors>
    isSubmitting,  \* LeadForm: useState(false)
    submitted,     \* LeadForm: useState(false)
    submitError,   \* LeadForm: useState<string | null>(null)
    inflight,      \* fetch calls of handleSubmit that have not settled yet
    attempts,      \* number of handleSubmit calls that passed validation
    fetches,       \* number of fetch("/api/book-call") calls issued
    env,           \* process.env of the server
    request,       \* a request sent to the endpoint directly (not by the form)
    handled,       \* what the endpoint did with `request`
    event,         \* the change or key-down event being dispatched to the phone input
    glow,          \* MobileTouchEffect: useState<{x, y, visible} | null>(null)
    isMobile,      \* MobileTouchEffect: useState(false)
    touches,       \* the touch points on the screen (TouchEvent.touches)
    timers,        \* setTimeout callbacks of handleTouchEnd that have not run yet
    lastTouch      \* the last touchstart, touchend or touchcancel the listeners handled

vars == <<values, errors, isSubmitting, submitted, submitError, inflight,
          attempts, fetches, env, request, handled, event,
          glow, isMobile, touches, timers, lastTouch>>

formVars == <<values, errors, isSubmitting, submitted, submitError>>
netVars == <<inflight, attempts, fetches>>
serverVars == <<env, request, handled>>
touchVars == <<glow, isMobile, touches, timers, lastTouch>>

-----------------------------------------------------------------------------
(* Bounds of the model *)

\* handleSubmit calls that pass validation, per form instance
MaxSubmits == 2
\* length of the raw texts given to the phone input
MaxRaw == 12
\* length of the generated e-mail texts
MaxEmailLen == 5
\* touch points on the screen at once
MaxTouches == 2
\* setTimeout callbacks of handleTouchEnd pending at once
MaxTimers == 2

-----------------------------------------------------------------------------
(* Text: JavaScript strings as sequences of characters *)

Digits == {"0", "1", "2", "3", "4", "5", "6", "7", "8", "9"}

\* \s of a regular expression, and what String.prototype.trim strips
WhiteSpace == {" ", "\t", "\n"}

\* what "." of a regular expression does not match
LineTerminators == {"\n"}

Min(a, b) == IF a < b THEN a ELSE b

RECURSIVE TrimStart(_)
TrimStart(s) ==
    IF s # <<>> /\ Head(s) \in WhiteSpace THEN TrimStart(Tail(s)) ELSE s

RECURSIVE TrimEnd(_)
TrimEnd(s) ==
    IF s # <<>> /\ s[Len(s)] \in WhiteSpace
    THEN TrimEnd(SubSeq(s, 1, Len(s) - 1))
    ELSE s

\* String.prototype.trim
Trim(s) == TrimEnd(TrimStart(s))

\* String.prototype.slice(from, to) for 0 <= from, 0 <= to
Slice(s, from, to) == SubSeq(s, from + 1, Min(to, Len(s)))

\* the text as one TLA+ string, for template literals
RECURSIVE Str(_)
Str(s) == IF s = <<>> THEN "" ELSE Head(s) \o Str(Tail(s))

IsDigit(c) == c \in Digits

\* String.prototype.toLowerCase on the letters of "https" (the i flag)
Lower(c) ==
    CASE c = "H" -> "h"
      [] c = "T" -> "t"
      [] c = "P" -> "p"
      [] c = "S" -> "s"
      [] OTHER -> c

-----------------------------------------------------------------------------
(* LeadForm: pure functions *)

Fields == {"fullName", "phoneNumber", "email", "storeUrl", "revenueStream", "message"}

\* an absent key of FormErrors
Undefined == "undefined"

\* submitError = null
Null == "null"

initialFormValues == [f \in Fields |-> <<>>]

getPhoneDigits(value) == Slice(SelectSeq(value, IsDigit), 0, 10)

formatPhoneNumber_lateDash(value) ==
    LET digits == getPhoneDigits(value) IN
    IF Len(digits) <= 3 THEN digits
    ELSE IF Len(digits) <= 7
         THEN <<"(">> \o Slice(digits, 0, 3) \o <<")", " ">> \o Slice(digits, 3, Len(digits))
         ELSE <<"(">> \o Slice(digits, 0, 3) \o <<")", " ">> \o Slice(digits, 3, 6)
              \o <<"-">> \o Slice(digits, 6, 10)

formatPhoneNumber_countryCode(value) ==
    LET digits == getPhoneDigits(value) IN
    IF Len(digits) <= 3 THEN digits
    ELSE IF Len(digits) <= 6
         THEN <<"(">> \o Slice(digits, 0, 3) \o <<")", " ">> \o Slice(digits, 3, Len(digits))
         ELSE <<"+", "1", " ", "(">> \o Slice(digits, 0, 3) \o <<")", " ">> \o Slice(digits, 3, 6)
              \o <<"-">> \o Slice(digits, 6, 10)

formatPhoneNumber(value) ==
    LET digits == getPhoneDigits(value) IN
    IF Len(digits) <= 3 THEN digits
    ELSE IF Len(digits) <= 6
         THEN <<"(">> \o Slice(digits, 0, 3) \o <<")", " ">> \o Slice(digits, 3, Len(digits))
         ELSE <<"(">> \o Slice(digits, 0, 3) \o <<")", " ">> \o Slice(digits, 3, 6)
              \o <<"-">> \o Slice(digits, 6, 10)

\* [^\s@]
NotSpaceOrAt(c) == c \notin WhiteSpace /\ c # "@"

\* /^[^\s@]+@[^\s@]+\.[^\s@]+$/.test(s)
EmailPattern(s) ==
    \E i \in 2..Len(s) : \E j \in (i + 2)..(Len(s) - 1) :
        /\ s[i] = "@"
        /\ s[j] = "."
        /\ \A k \in 1..(i - 1) : NotSpaceOrAt(s[k])
        /\ \A k \in (i + 1)..(j - 1) : NotSpaceOrAt(s[k])
        /\ \A k \in (j + 1)..Len(s) : NotSpaceOrAt(s[k])

isValidEmail(value) == EmailPattern(Trim(value))

\* /^https?:\/\/.+/i.test(s)
UrlPattern(s) ==
    LET low == [k \in 1..Len(s) |-> Lower(s[k])]
        starts(prefix) ==
            /\ Len(s) > Len(prefix)
            /\ SubSeq(low, 1, Len(prefix)) = prefix
            /\ s[Len(prefix) + 1] \notin LineTerminators
    IN \/ starts(<<"h", "t", "t", "p", ":", "/", "/">>)
       \/ starts(<<"h", "t", "t", "p", "s", ":", "/", "/">>)

isValidStoreUrl(value) == UrlPattern(Trim(value))

validateForm(v) ==
    [f \in Fields |->
        CASE f = "fullName" ->
                IF Trim(v.fullName) = <<>> THEN "Full name is required." ELSE Undefined
          [] f = "phoneNumber" ->
                IF Trim(v.phoneNumber) = <<>> THEN "Phone number is required."
                ELSE IF Len(getPhoneDigits(v.phoneNumber)) # 10
                     THEN "Enter a valid 10-digit phone number."
                     ELSE Undefined
          [] f = "email" ->
                IF Trim(v.email) = <<>> THEN "Email is required."
                ELSE IF ~isValidEmail(v.email) THEN "Please enter a valid email."
                     ELSE Undefined
          [] f = "storeUrl" ->
                IF Trim(v.storeUrl) # <<>> /\ ~isValidStoreUrl(v.storeUrl)
                THEN "Use a full URL, including https://"
                ELSE Undefined
          [] f = "revenueStream" ->
                IF v.revenueStream = <<>> THEN "Select your revenue stream." ELSE Undefined
          [] OTHER -> Undefined]

\* Object.keys(validationErrors).length > 0
HasErrors(e) == \E f \in Fields : e[f] # Undefined

isFormReady(v) ==
    /\ Len(Trim(v.fullName)) > 0
    /\ Len(getPhoneDigits(v.phoneNumber)) = 10
    /\ isValidEmail(v.email)
    /\ (Trim(v.storeUrl) = <<>> \/ isValidStoreUrl(v.storeUrl))
    /\ Len(Trim(v.revenueStream)) > 0

-----------------------------------------------------------------------------
(* POST /api/book-call *)

FieldOrder == <<"fullName", "phoneNumber", "email", "storeUrl", "revenueStream", "message">>

\* a value of process.env: Undefined (not set), "" or a key
Falsy(v) == v \in {Undefined, ""}

resendApiKey_publicFirst(e) ==
    IF ~Falsy(e.NEXT_PUBLIC_RESEND_API_KEY) THEN e.NEXT_PUBLIC_RESEND_API_KEY
    ELSE e.RESEND_API_KEY

\* process.env.RESEND_API_KEY || process.env.NEXT_PUBLIC_RESEND_API_KEY
resendApiKey(e) ==
    IF ~Falsy(e.RESEND_API_KEY) THEN e.RESEND_API_KEY ELSE e.NEXT_PUBLIC_RESEND_API_KEY

\* a JSON value of the body: a key that is absent, null, text, or another value
Absent == [t |-> "absent", s |-> <<>>]
JsonNull == [t |-> "null", s |-> <<>>]
JsonOther == [t |-> "other", s |-> <<>>]
JsonText(s) == [t |-> "text", s |-> s]

\* a thrown value: an Error with a message, or a value that is no Error
ErrorOf(m) == [isError |-> TRUE, message |-> m]
NonError(m) == [isError |-> FALSE, message |-> m]

\* request.json() of a body that is no JSON
JsonSyntaxError == ErrorOf("Unexpected token in JSON")

\* body.<f> of a null body
NullBodyError == ErrorOf("Cannot read properties of null (reading 'fullName')")

\* body.<f>?.trim() of a value without a trim method
NotAFunction(f) == ErrorOf("body." \o f \o "?.trim is not a function")

\* NextResponse.json(body, {status})
JsonResponse(status, body) == [status |-> status, body |-> body]

ConfigErrorResponse ==
    JsonResponse(500, [error |->
        "Email service is not configured. Set RESEND_API_KEY in your server environment."])

MissingFieldsResponse == JsonResponse(400, [error |-> "Missing required fields."])

SuccessResponse == JsonResponse(200, [success |-> TRUE])

CatchResponse_anyMessage(thrown) == JsonResponse(500, [error |-> thrown.message])

\* catch (error) { ... }
CatchResponse(thrown) ==
    JsonResponse(500, [error |->
        IF thrown.isError THEN thrown.message ELSE "Unable to submit request."])

RelayErrorResponse_noFallback(relay) ==
    JsonResponse(502, [error |-> "Resend error: " \o relay.message])

\* if (error) { ... }
RelayErrorResponse(relay) ==
    LET resendErrorMessage ==
            IF relay.isString /\ Len(relay.message) > 0
            THEN relay.message
            ELSE "Unable to send email."
    IN JsonResponse(502, [error |-> "Resend error: " \o resendErrorMessage])

\* the fields of the body whose ?.trim() throws, by their place in FieldOrder
Throwing(body) ==
    {i \in 1..Len(FieldOrder) : body.kind = "object" /\ body.fields[FieldOrder[i]].t = "other"}

\* body.<f>?.trim() ?? ""
FieldText(body, f) ==
    IF body.kind = "object" /\ body.fields[f].t = "text"
    THEN Trim(body.fields[f].s)
    ELSE <<>>

RequiredMissing_noRevenue(t) ==
    t.fullName = <<>> \/ t.phoneNumber = <<>> \/ t.email = <<>>

RequiredMissing_checksEmail(t) ==
    \/ t.fullName = <<>> \/ t.phoneNumber = <<>> \/ t.email = <<>> \/ t.revenueStream = <<>>
    \/ ~EmailPattern(t.email)

\* !fullName || !phoneNumber || !email || !revenueStream
RequiredMissing(t) ==
    t.fullName = <<>> \/ t.phoneNumber = <<>> \/ t.email = <<>> \/ t.revenueStream = <<>>

toEmail == "timothytitenokspam@gmail.com"
fromEmail == "onboarding@resend.dev"

SendArgs_noFallback(t) ==
    LET storeUrl == Str(t.storeUrl)
        message == Str(t.message)
    IN [from |-> fromEmail,
        to |-> <<toEmail>>,
        subject |-> "New Stratova call request: " \o Str(t.fullName),
        replyTo |-> Str(t.email),
        text |-> "New book a call request" \o "\n"
                 \o "Full name: " \o Str(t.fullName) \o "\n"
                 \o "Phone number: " \o Str(t.phoneNumber) \o "\n"
                 \o "Email: " \o Str(t.email) \o "\n"
                 \o "Store URL: " \o storeUrl \o "\n"
                 \o "Revenue stream: " \o Str(t.revenueStream) \o "\n"
                 \o "Message: " \o message,
        html |-> "\n        <h2>New book a call request</h2>"
                 \o "\n        <p><strong>Full name:</strong> " \o Str(t.fullName) \o "</p>"
                 \o "\n        <p><strong>Phone number:</strong> " \o Str(t.phoneNumber) \o "</p>"
                 \o "\n        <p><strong>Email:</strong> " \o Str(t.email) \o "</p>"
                 \o "\n        <p><strong>Store URL:</strong> " \o storeUrl \o "</p>"
                 \o "\n        <p><strong>Revenue stream:</strong> " \o Str(t.revenueStream) \o "</p>"
                 \o "\n        <p><strong>Message:</strong> " \o message \o "</p>"
                 \o "\n      "]

\* the argument of resend.emails.send
SendArgs(t) ==
    LET storeUrl == IF t.storeUrl # <<>> THEN Str(t.storeUrl) ELSE "N/A (needs build from scratch)"
        message == IF t.message # <<>> THEN Str(t.message) ELSE "N/A"
    IN [from |-> fromEmail,
        to |-> <<toEmail>>,
        subject |-> "New Stratova call request: " \o Str(t.fullName),
        replyTo |-> Str(t.email),
        text |-> "New book a call request" \o "\n"
                 \o "Full name: " \o Str(t.fullName) \o "\n"
                 \o "Phone number: " \o Str(t.phoneNumber) \o "\n"
                 \o "Email: " \o Str(t.email) \o "\n"
                 \o "Store URL: " \o storeUrl \o "\n"
                 \o "Revenue stream: " \o Str(t.revenueStream) \o "\n"
                 \o "Message: " \o message,
        html |-> "\n        <h2>New book a call request</h2>"
                 \o "\n        <p><strong>Full name:</strong> " \o Str(t.fullName) \o "</p>"
                 \o "\n        <p><strong>Phone number:</strong> " \o Str(t.phoneNumber) \o "</p>"
                 \o "\n        <p><strong>Email:</strong> " \o Str(t.email) \o "</p>"
                 \o "\n        <p><strong>Store URL:</strong> " \o storeUrl \o "</p>"
                 \o "\n        <p><strong>Revenue stream:</strong> " \o Str(t.revenueStream) \o "</p>"
                 \o "\n        <p><strong>Message:</strong> " \o message \o "</p>"
                 \o "\n      "]

Relay_ignoresError(t, relay) ==
    LET sends == <<SendArgs(t)>> IN
    CASE relay.kind = "throw" ->
            [response |-> CatchResponse([isError |-> relay.isError, message |-> relay.message]),
             sends |-> sends]
      [] OTHER -> [response |-> SuccessResponse, sends |-> sends]

Relay_retry(t, relay) ==
    LET sends == IF relay.kind = "ok" THEN <<SendArgs(t)>> ELSE <<SendArgs(t), SendArgs(t)>> IN
    CASE relay.kind = "throw" ->
            [response |-> CatchResponse([isError |-> relay.isError, message |-> relay.message]),
             sends |-> sends]
      [] relay.kind = "error" -> [response |-> RelayErrorResponse(relay), sends |-> sends]
      [] OTHER -> [response |-> SuccessResponse, sends |-> sends]

\* lines 35-68: the relay call and the response built from its result
Relay(t, relay) ==
    LET sends == <<SendArgs(t)>> IN
    CASE relay.kind = "throw" ->
            [response |-> CatchResponse([isError |-> relay.isError, message |-> relay.message]),
             sends |-> sends]
      [] relay.kind = "error" -> [response |-> RelayErrorResponse(relay), sends |-> sends]
      [] OTHER -> [response |-> SuccessResponse, sends |-> sends]

\* lines 23-33: the body parsed, its fields trimmed, the required fields checked
Intake(body, relay) ==
    IF body.kind = "malformed" THEN [response |-> CatchResponse(JsonSyntaxError), sends |-> <<>>]
    ELSE IF body.kind = "null" THEN [response |-> CatchResponse(NullBodyError), sends |-> <<>>]
    ELSE IF Throwing(body) # {}
    THEN LET first == CHOOSE i \in Throwing(body) : \A j \in Throwing(body) : i <= j
         IN [response |-> CatchResponse(NotAFunction(FieldOrder[first])), sends |-> <<>>]
    ELSE LET t == [f \in Fields |-> FieldText(body, f)] IN
         IF RequiredMissing(t)
         THEN [response |-> MissingFieldsResponse, sends |-> <<>>]
         ELSE Relay(t, relay)

POST_keyAfterBody(e, body, relay) ==
    LET made == Intake(body, relay) IN
    IF body.kind \in {"malformed", "null"} \/ Throwing(body) # {}
    THEN [response |-> made.response, sends |-> made.sends, client |-> Undefined]
    ELSE IF Falsy(resendApiKey(e))
         THEN [response |-> ConfigErrorResponse, sends |-> <<>>, client |-> Undefined]
         ELSE [response |-> made.response, sends |-> made.sends,
               client |-> IF made.sends = <<>> THEN Undefined ELSE resendApiKey(e)]

\* export async function POST(request): the response, the calls of
\* resend.emails.send it made, and the key it gave to `new Resend` (line 35,
\* reached exactly when a send is made); `relay` is what the provider does
\* with a call
POST(e, body, relay) ==
    LET key == resendApiKey(e) IN
    IF Falsy(key)
    THEN [response |-> ConfigErrorResponse, sends |-> <<>>, client |-> Undefined]
    ELSE LET made == Intake(body, relay) IN
         [response |-> made.response, sends |-> made.sends,
          client |-> IF made.sends = <<>> THEN Undefined ELSE key]

-----------------------------------------------------------------------------
(* The email provider, the network and the server environment *)

\* what resend.emails.send does with a call: resolves without error, resolves
\* with {error} whose message is a text or not, or throws
RelayOk == [kind |-> "ok", isError |-> FALSE, isString |-> FALSE, message |-> ""]
RelayError(m) == [kind |-> "error", isError |-> FALSE, isString |-> TRUE, message |-> m]
RelayErrorNoMessage == [kind |-> "error", isError |-> FALSE, isString |-> FALSE, message |-> ""]
RelayThrows(thrown) ==
    [kind |-> "throw", isError |-> thrown.isError, isString |-> TRUE, message |-> thrown.message]
NoRelay == [kind |-> "none", isError |-> FALSE, isString |-> FALSE, message |-> ""]

RelayOutcomes ==
    {RelayOk, RelayError("quota exceeded"), RelayError(""), RelayErrorNoMessage,
     RelayThrows(ErrorOf("fetch failed")), RelayThrows(NonError("boom"))}

\* process.env: each of the two variables not set, empty, or a key
Envs ==
    [RESEND_API_KEY : {Undefined, "", "re_server_key"},
     NEXT_PUBLIC_RESEND_API_KEY : {Undefined, "", "re_public_key"}]

Unconfigured == [RESEND_API_KEY |-> Undefined, NEXT_PUBLIC_RESEND_API_KEY |-> Undefined]
Configured == [RESEND_API_KEY |-> "re_server_key", NEXT_PUBLIC_RESEND_API_KEY |-> Undefined]

\* the value of the `error` key of a response body, as response.json() gives
\* it: a text, an object, or the number 0
ErrorText(m) == [t |-> "text", s |-> m]
ErrorObject == [t |-> "object", s |-> ""]
ErrorZero == [t |-> "number", s |-> "0"]

\* the left operand of `payload?.error || "Request failed"` is taken
Truthy(v) ==
    CASE v.t = "text" -> v.s # ""
      [] v.t = "object" -> TRUE
      [] OTHER -> v.s # "0"

\* new Error(value).message: String(value)
StringOf(v) == IF v.t = "object" THEN "[object Object]" ELSE v.s

\* a response that does not come from the handler (a proxy or the platform):
\* a non-success status with a body that is no JSON, or JSON without `error`
InfraResponses ==
    {[status |-> 504, parses |-> FALSE, body |-> [html |-> TRUE]],
     [status |-> 413, parses |-> TRUE, body |-> [message |-> "Payload too large"]]}

\* more of them: JSON whose `error` is an object ({"error": {"code": "..."}}),
\* an empty text, or the number 0
InfraErrorResponses ==
    {[status |-> 429, parses |-> TRUE, body |-> [error |-> ErrorObject]],
     [status |-> 503, parses |-> TRUE, body |-> [error |-> ErrorText("")]],
     [status |-> 502, parses |-> TRUE, body |-> [error |-> ErrorZero]]}

\* what fetch rejects with when no response arrives
FetchRejections == {ErrorOf("Failed to fetch")}

NoResponse == [status |-> 0, parses |-> FALSE, body |-> [none |-> TRUE]]
NoBody == [kind |-> "none", fields |-> [f \in Fields |-> Absent]]
NotServed ==
    [byHandler |-> FALSE, env |-> Unconfigured, relay |-> NoRelay, sends |-> 0,
     client |-> Undefined]

\* no request handled yet; no change event pending
Unhandled == [response |-> NoResponse, served |-> NotServed, calls |-> <<>>]
NoEvent == [key |-> "none", value |-> <<>>, done |-> TRUE]

\* what the handler did for a request: the environment it ran in, what the
\* provider did with the send (NoRelay when there was no send), how many sends
Served(e, relay, result) ==
    [byHandler |-> TRUE,
     env |-> e,
     relay |-> IF result.sends = <<>> THEN NoRelay ELSE relay,
     sends |-> Len(result.sends),
     client |-> result.client]

-----------------------------------------------------------------------------
(* LeadForm: state and handlers *)

\* JSON.stringify(values), as request.json() reads it back: an object whose six
\* keys are texts
Stringify(v) == [kind |-> "object", fields |-> [f \in Fields |-> JsonText(v[f])]]

handleChange_noFormat(key, value) ==
    /\ values' = [values EXCEPT ![key] = value]
    /\ errors' = [errors EXCEPT ![key] = Undefined]
    /\ submitError' = Null
    /\ UNCHANGED <<isSubmitting, submitted>>

handleChange_clearsAll(key, value) ==
    LET nextValue == IF key = "phoneNumber" THEN formatPhoneNumber(value) ELSE value IN
    /\ values' = [values EXCEPT ![key] = nextValue]
    /\ errors' = [f \in Fields |-> Undefined]
    /\ submitError' = Null
    /\ UNCHANGED <<isSubmitting, submitted>>

handleChange_keepFieldError(key, value) ==
    LET nextValue == IF key = "phoneNumber" THEN formatPhoneNumber(value) ELSE value IN
    /\ values' = [values EXCEPT ![key] = nextValue]
    /\ submitError' = Null
    /\ UNCHANGED <<errors, isSubmitting, submitted>>

handleChange_keepError(key, value) ==
    LET nextValue == IF key = "phoneNumber" THEN formatPhoneNumber(value) ELSE value IN
    /\ values' = [values EXCEPT ![key] = nextValue]
    /\ errors' = [errors EXCEPT ![key] = Undefined]
    /\ UNCHANGED <<isSubmitting, submitted, submitError>>

handleChange(key, value) ==
    LET nextValue == IF key = "phoneNumber" THEN formatPhoneNumber(value) ELSE value IN
    /\ values' = [values EXCEPT ![key] = nextValue]
    /\ errors' = [errors EXCEPT ![key] = Undefined]
    /\ submitError' = Null
    /\ UNCHANGED <<isSubmitting, submitted>>

handleSubmit_noAbort ==
    /\ errors' = validateForm(values)
    /\ attempts < MaxSubmits
    /\ isSubmitting' = TRUE
    /\ submitError' = Null
    /\ attempts' = attempts + 1
    /\ fetches' = fetches + 1
    /\ inflight' = inflight \cup
           {[id |-> fetches + 1, stage |-> "request", body |-> Stringify(values),
             response |-> NoResponse, served |-> NotServed]}
    /\ UNCHANGED <<values, submitted>>

handleSubmit_keepsError ==
    LET validationErrors == validateForm(values) IN
    /\ errors' = validationErrors
    /\ IF HasErrors(validationErrors)
       THEN UNCHANGED <<values, isSubmitting, submitted, submitError, netVars>>
       ELSE /\ attempts < MaxSubmits
            /\ isSubmitting' = TRUE
            /\ attempts' = attempts + 1
            /\ fetches' = fetches + 1
            /\ inflight' = inflight \cup
                   {[id |-> fetches + 1, stage |-> "request", body |-> Stringify(values),
                     response |-> NoResponse, served |-> NotServed]}
            /\ UNCHANGED <<values, submitted, submitError>>

\* handleSubmit up to `await fetch(...)`
handleSubmit ==
    LET validationErrors == validateForm(values) IN
    /\ errors' = validationErrors
    /\ IF HasErrors(validationErrors)
       THEN UNCHANGED <<values, isSubmitting, submitted, submitError, netVars>>
       ELSE /\ attempts < MaxSubmits
            /\ isSubmitting' = TRUE
            /\ submitError' = Null
            /\ attempts' = attempts + 1
            /\ fetches' = fetches + 1
            /\ inflight' = inflight \cup
                   {[id |-> fetches + 1, stage |-> "request", body |-> Stringify(values),
                     response |-> NoResponse, served |-> NotServed]}
            /\ UNCHANGED <<values, submitted>>

\* response.ok
Ok(response) == response.status \in 200..299

\* the handler's response as the form's fetch receives it
Received(response) ==
    [status |-> response.status, parses |-> TRUE,
     body |-> IF "error" \in DOMAIN response.body
              THEN [error |-> ErrorText(response.body.error)]
              ELSE response.body]

handleResponse_noReset(response) ==
    IF Ok(response)
    THEN /\ submitted' = TRUE
         /\ isSubmitting' = FALSE
         /\ UNCHANGED <<values, errors, submitError>>
    ELSE /\ submitError' =
                IF response.parses /\ "error" \in DOMAIN response.body
                   /\ Truthy(response.body.error)
                THEN StringOf(response.body.error)
                ELSE "Request failed"
         /\ isSubmitting' = FALSE
         /\ UNCHANGED <<values, errors, submitted>>

handleResponse_resetOnFailure(response) ==
    IF Ok(response)
    THEN /\ submitted' = TRUE
         /\ values' = initialFormValues
         /\ isSubmitting' = FALSE
         /\ UNCHANGED <<errors, submitError>>
    ELSE /\ submitError' =
                IF response.parses /\ "error" \in DOMAIN response.body
                   /\ Truthy(response.body.error)
                THEN StringOf(response.body.error)
                ELSE "Request failed"
         /\ values' = initialFormValues
         /\ isSubmitting' = FALSE
         /\ UNCHANGED <<errors, submitted>>

\* handleSubmit after `await fetch(...)` resolved with `response`
handleResponse(response) ==
    IF Ok(response)
    THEN /\ submitted' = TRUE
         /\ values' = initialFormValues
         /\ isSubmitting' = FALSE
         /\ UNCHANGED <<errors, submitError>>
    ELSE LET payload == IF response.parses THEN response.body ELSE [null |-> TRUE]
             message ==
                 IF "error" \in DOMAIN payload /\ Truthy(payload.error)
                 THEN StringOf(payload.error)
                 ELSE "Request failed"
         IN /\ submitError' = message
            /\ isSubmitting' = FALSE
            /\ UNCHANGED <<values, errors, submitted>>

handleRejection_noFinally(thrown) ==
    /\ submitError' = IF thrown.isError
                      THEN thrown.message
                      ELSE "Something went wrong. Please try again in a moment."
    /\ UNCHANGED <<values, errors, submitted, isSubmitting>>

\* handleSubmit after `await fetch(...)` rejected with `thrown`
handleRejection(thrown) ==
    /\ submitError' = IF thrown.isError
                      THEN thrown.message
                      ELSE "Something went wrong. Please try again in a moment."
    /\ isSubmitting' = FALSE
    /\ UNCHANGED <<values, errors, submitted>>

-----------------------------------------------------------------------------
(* MobileTouchEffect: state and handlers *)

\* clientX and clientY of a touch point
Coords == {0, 1}
Points == [clientX : Coords, clientY : Coords]

\* the values of `glow`: null, or {x, y, visible}
NoGlow == [null |-> TRUE, x |-> 0, y |-> 0, visible |-> FALSE]
Glow(x, y, visible) == [null |-> FALSE, x |-> x, y |-> y, visible |-> visible]

\* a touch event of the document: its touches list
TouchEvent(list) == [touches |-> list]

NoTouch == [type |-> "none", heard |-> FALSE]

\* the component after its first render
Mount ==
    /\ glow = NoGlow
    /\ isMobile = FALSE
    /\ touches = <<>>
    /\ timers = 0
    /\ lastTouch = NoTouch

handleTouchStart(e) ==
    IF e.touches = <<>>
       THEN glow' = glow
       ELSE glow' = Glow(e.touches[1].clientX, e.touches[1].clientY, TRUE)

handleTouchMove(e) ==
    IF e.touches = <<>>
       THEN glow' = glow
       ELSE glow' = IF glow.null THEN NoGlow
                   ELSE [glow EXCEPT !.x = e.touches[1].clientX,
                                     !.y = e.touches[1].clientY]

\* the timer it sets is never cleared: not by a later touch, not by the cleanup
handleTouchEnd ==
    /\ glow' = IF glow.null THEN NoGlow ELSE [glow EXCEPT !.visible = FALSE]
    /\ timers' = timers + 1

handleTouchCancel == glow' = NoGlow

\* the callback of the timer of handleTouchEnd
clearGlow == glow' = NoGlow

-----------------------------------------------------------------------------
(* The pipeline: one form instance, the network, the endpoint *)

\* what the user enters in a field: typed, pasted or selected values
Inputs(key) ==
    CASE key = "fullName" -> {<<"A", "l">>}
      [] key = "phoneNumber" ->
            {<<"5", "5", "5", "1">>,
             <<"(", "5", "5", "5", ")", " ", "1", "2", "3", "-", "4", "5", "6", "7", "x", "8", "9">>}
      [] key = "email" -> {<<"a", "@", "b", ".", "c">>}
      [] key = "storeUrl" -> {<<"x", ".", "c">>, <<"h", "t", "t", "p", "s", ":", "/", "/", "x">>}
      [] key = "revenueStream" -> {<<"$", "0", " ", "-", " ", "$", "1", "0", "k", "/", "m", "o">>}
      [] OTHER -> {<<"h", "i">>}

\* what the provider does with a send of the form's request
FormRelayOutcomes ==
    {RelayOk, RelayError("quota exceeded"), RelayThrows(ErrorOf("fetch failed"))}

Init ==
    /\ values = initialFormValues
    /\ errors = [f \in Fields |-> Undefined]
    /\ isSubmitting = FALSE
    /\ submitted = FALSE
    /\ submitError = Null
    /\ inflight = {}
    /\ attempts = 0
    /\ fetches = 0
    /\ env = Configured
    /\ request = NoBody
    /\ handled = Unhandled
    /\ event = NoEvent
    /\ Mount

Change_afterSuccess(key, value) ==
    /\ handleChange(key, value)
    /\ UNCHANGED <<netVars, serverVars, event, touchVars>>

\* the user changes a field of the rendered form
Change(key, value) ==
    /\ ~submitted
    /\ handleChange(key, value)
    /\ UNCHANGED <<netVars, serverVars, event, touchVars>>

\* a submit event reaches the rendered form (onSubmit, line 339); handleSubmit
\* itself tests neither isSubmitting nor isFormReady: only the button's disabled
\* attribute (line 445) does, and a submit event need not come from the button
Submit ==
    /\ ~submitted
    /\ handleSubmit
    /\ UNCHANGED <<serverVars, event, touchVars>>

\* the endpoint handles a request of the form
Handle(a, relay) ==
    /\ a.stage = "request"
    /\ LET result == POST(env, a.body, relay) IN
       inflight' = (inflight \ {a}) \cup
           {[id |-> a.id, stage |-> "response", body |-> NoBody,
             response |-> Received(result.response),
             served |-> Served(env, relay, result)]}
    /\ UNCHANGED <<formVars, attempts, fetches, serverVars, event, touchVars>>

\* the request is answered without reaching the handler
Infra(a, response) ==
    /\ a.stage = "request"
    /\ inflight' = (inflight \ {a}) \cup
           {[id |-> a.id, stage |-> "response", body |-> NoBody,
             response |-> response, served |-> NotServed]}
    /\ UNCHANGED <<formVars, attempts, fetches, serverVars, event, touchVars>>

\* the response reaches the form
Deliver(a) ==
    /\ a.stage = "response"
    /\ handleResponse(a.response)
    /\ inflight' = inflight \ {a}
    /\ UNCHANGED <<attempts, fetches, serverVars, event, touchVars>>

\* the request or its response is lost
TransportFail(a, thrown) ==
    /\ handleRejection(thrown)
    /\ inflight' = inflight \ {a}
    /\ UNCHANGED <<attempts, fetches, serverVars, event, touchVars>>

\* the server is deployed with another environment
Reconfigure(e) ==
    /\ e # env
    /\ env' = e
    /\ UNCHANGED <<formVars, netVars, request, handled, event, touchVars>>

Next ==
    \/ \E key \in Fields : \E value \in Inputs(key) : Change(key, value)
    \/ Submit
    \/ \E a \in inflight : \E relay \in FormRelayOutcomes : Handle(a, relay)
    \/ \E a \in inflight : \E response \in InfraResponses : Infra(a, response)
    \/ \E a \in inflight : Deliver(a)
    \/ \E a \in inflight : \E thrown \in FetchRejections : TransportFail(a, thrown)
    \/ \E e \in {Unconfigured, Configured} : Reconfigure(e)

Spec == Init /\ [][Next]_vars

-----------------------------------------------------------------------------
(* The rendered form: submit events come from the submit button only *)

submitDisabled_flagOnly == isSubmitting

submitDisabled_readyOnly == ~isFormReady(values)

\* <button type="submit" disabled={isSubmitting || !isFormReady}>
submitDisabled == isSubmitting \/ ~isFormReady(values)

\* the user activates the submit button (a click, or Enter in a field, which
\* the browser turns into a click of the form's submit button unless that
\* button is disabled)
PressSubmit ==
    /\ ~submitDisabled
    /\ Submit

NextUI ==
    \/ \E key \in Fields : \E value \in Inputs(key) : Change(key, value)
    \/ PressSubmit
    \/ \E a \in inflight : \E relay \in FormRelayOutcomes : Handle(a, relay)
    \/ \E a \in inflight : \E response \in InfraResponses \cup InfraErrorResponses :
            Infra(a, response)
    \/ \E a \in inflight : Deliver(a)
    \/ \E a \in inflight : \E thrown \in FetchRejections : TransportFail(a, thrown)
    \/ \E e \in {Unconfigured, Configured} : Reconfigure(e)

SpecUI == Init /\ [][NextUI]_vars

\* a request in flight makes a step: it is handled or answered, its response
\* reaches the form, or it is lost
Settle ==
    \E a \in inflight :
        \/ \E relay \in FormRelayOutcomes : Handle(a, relay)
        \/ \E response \in InfraResponses \cup InfraErrorResponses : Infra(a, response)
        \/ Deliver(a)
        \/ \E thrown \in FetchRejections : TransportFail(a, thrown)

\* the rendered form when every request eventually settles
SpecUILive == Init /\ [][NextUI]_vars /\ WF_vars(Settle)

-----------------------------------------------------------------------------
(* The endpoint alone: one request of any client, under any environment *)

NameValues ==
    {Absent, JsonNull, JsonOther, JsonText(<<>>), JsonText(<<" ">>),
     JsonText(<<" ", "A", "l", " ">>)}
PhoneValues == {Absent, JsonOther, JsonText(<<"\t">>), JsonText(<<"1", "2">>)}
EmailValues == {JsonNull, JsonOther, JsonText(<<>>), JsonText(<<" ", "a", "@", "b", " ">>)}
UrlValues == {Absent, JsonText(<<>>), JsonText(<<"x", ".", "c">>)}
RevenueValues == {Absent, JsonOther, JsonText(<<" ">>), JsonText(<<"$", "0">>)}
MessageValues == {Absent, JsonOther, JsonText(<<" ">>), JsonText(<<"h", "i", " ">>)}

\* the bodies a client can send: no JSON, null, another JSON value that has no
\* keys (a number, a text, true), or an object
Requests ==
    {[kind |-> k, fields |-> [f \in Fields |-> Absent]] : k \in {"malformed", "null", "scalar"}}
    \cup
    {[kind |-> "object",
      fields |-> [fullName |-> n, phoneNumber |-> p, email |-> m,
                  storeUrl |-> u, revenueStream |-> r, message |-> g]] :
        n \in NameValues, p \in PhoneValues, m \in EmailValues,
        u \in UrlValues, r \in RevenueValues, g \in MessageValues}

InitEndpoint ==
    /\ values = initialFormValues
    /\ errors = [f \in Fields |-> Undefined]
    /\ isSubmitting = FALSE
    /\ submitted = FALSE
    /\ submitError = Null
    /\ inflight = {}
    /\ attempts = 0
    /\ fetches = 0
    /\ env \in Envs
    /\ request \in Requests
    /\ handled = Unhandled
    /\ event = NoEvent
    /\ Mount

\* the endpoint handles `request`
Direct(relay) ==
    /\ handled = Unhandled
    /\ LET result == POST(env, request, relay) IN
       handled' = [response |-> [status |-> result.response.status, parses |-> TRUE,
                                 body |-> result.response.body],
                   served |-> Served(env, relay, result),
                   calls |-> result.sends]
    /\ UNCHANGED <<formVars, netVars, env, request, event, touchVars>>

\* the server is deployed with another environment and the request sent again
Redeploy(e) ==
    /\ handled # Unhandled
    /\ e # env
    /\ env' = e
    /\ handled' = Unhandled
    /\ UNCHANGED <<formVars, netVars, request, event, touchVars>>

NextEndpoint ==
    \/ \E relay \in RelayOutcomes : Direct(relay)
    \/ \E e \in Envs : Redeploy(e)

SpecEndpoint == InitEndpoint /\ [][NextEndpoint]_vars

-----------------------------------------------------------------------------
(* validateForm and isFormReady on any field values *)

EmailAlphabet == {"a", "@", "."}

\* every text over the alphabet up to the length, and texts with white space
EmailTexts ==
    UNION {[1..n -> EmailAlphabet] : n \in 0..MaxEmailLen}
    \cup {<<" ">>, <<" ", "a", "@", "a", ".", "a", " ">>, <<"a", " ", "@", "a", ".", "a">>,
          <<"a", "@", "a", ".", "a", "\n", "a">>}

NameTexts == {<<>>, <<" ">>, <<" ", "A", " ">>}

PhoneTexts ==
    {<<>>, <<" ">>,
     <<"(", "5", "5", "5", ")", " ", "1", "2", "3", "-", "4", "5", "6">>,
     <<"(", "5", "5", "5", ")", " ", "1", "2", "3", "-", "4", "5", "6", "7">>,
     <<"5", "5", "5", "1", "2", "3", "4", "5", "6", "7", "8">>}

UrlTexts ==
    {<<>>, <<" ">>, <<"x", ".", "c">>,
     <<"h", "t", "t", "p", ":", "/", "/">>,
     <<"h", "t", "t", "p", ":", "/", "/", "x">>,
     <<" ", "H", "t", "t", "p", "S", ":", "/", "/", "x", " ">>,
     <<"h", "t", "t", "p", "s", ":", "/", "/", "\n", "x">>}

RevenueTexts == {<<>>, <<" ">>, <<"$", "0", " ", "-", " ", "$", "1", "0", "k", "/", "m", "o">>}

MessageTexts == {<<>>}

InitValidate ==
    /\ values \in [fullName : NameTexts, phoneNumber : PhoneTexts, email : EmailTexts,
                   storeUrl : UrlTexts, revenueStream : RevenueTexts, message : MessageTexts]
    /\ errors = [f \in Fields |-> Undefined]
    /\ isSubmitting = FALSE
    /\ submitted = FALSE
    /\ submitError = Null
    /\ inflight = {}
    /\ attempts = 0
    /\ fetches = 0
    /\ env = Configured
    /\ request = NoBody
    /\ handled = Unhandled
    /\ event = NoEvent
    /\ Mount

\* one submit of the form, and the endpoint handling the request it sent
NextValidate ==
    \/ attempts = 0 /\ Submit
    \/ \E a \in inflight : Handle(a, RelayOk)

SpecValidate == InitValidate /\ [][NextValidate]_vars

-----------------------------------------------------------------------------
(* handleChange of the phone field on any raw text *)

\* the raw texts: at each place a digit (the place's number modulo 10, so that
\* the digits of a text differ) or a character that is no digit
DigitAt(i) ==
    CASE i % 10 = 0 -> "0" [] i % 10 = 1 -> "1" [] i % 10 = 2 -> "2" [] i % 10 = 3 -> "3"
      [] i % 10 = 4 -> "4" [] i % 10 = 5 -> "5" [] i % 10 = 6 -> "6" [] i % 10 = 7 -> "7"
      [] i % 10 = 8 -> "8" [] OTHER -> "9"

RawTexts ==
    UNION {{[i \in 1..n |-> IF i \in D THEN DigitAt(i) ELSE IF i % 3 = 0 THEN " " ELSE "-"] :
                D \in SUBSET (1..n)} : n \in 0..MaxRaw}

InitPhone ==
    /\ values = initialFormValues
    /\ errors = [f \in Fields |-> Undefined]
    /\ isSubmitting = FALSE
    /\ submitted = FALSE
    /\ submitError = Null
    /\ inflight = {}
    /\ attempts = 0
    /\ fetches = 0
    /\ env = Configured
    /\ request = NoBody
    /\ handled = Unhandled
    /\ event \in {[key |-> "phoneNumber", value |-> raw, done |-> FALSE] : raw \in RawTexts}
    /\ Mount

\* the change event of the phone input is handled
ChangePhone ==
    /\ ~event.done
    /\ ~submitted
    /\ handleChange(event.key, event.value)
    /\ event' = [event EXCEPT !.done = TRUE]
    /\ UNCHANGED <<netVars, serverVars, touchVars>>

\* the text of the input with its i-th character deleted
DeleteAt(text, i) == SubSeq(text, 1, i - 1) \o SubSeq(text, i + 1, Len(text))

\* the user deletes a character of the masked value the input shows
\* (value={values.phoneNumber}, line 354): the next change event carries the rest
DeleteChar(i) ==
    /\ event.done
    /\ i \in 1..Len(values.phoneNumber)
    /\ event' = [key |-> "phoneNumber", value |-> DeleteAt(values.phoneNumber, i),
                 done |-> FALSE]
    /\ UNCHANGED <<formVars, netVars, serverVars, touchVars>>

NextPhone ==
    \/ ChangePhone
    \/ \E i \in 1..14 : DeleteChar(i)

SpecPhone == InitPhone /\ [][NextPhone]_vars

-----------------------------------------------------------------------------
(* The key-down handler of the phone input on any key and stored number *)

allowedKeys == {"Backspace", "Delete", "ArrowLeft", "ArrowRight", "Tab", "Home", "End"}

\* /^\d$/.test(event.key)
DigitKey(key) == key \in Digits

onKeyDown_noLimit(e, phoneNumber) ==
    IF e.ctrlKey \/ e.metaKey \/ e.altKey \/ e.key \in allowedKeys THEN FALSE
    ELSE ~DigitKey(e.key)

\* onKeyDown of the phone field: TRUE when it calls event.preventDefault()
onKeyDown(e, phoneNumber) ==
    IF e.ctrlKey \/ e.metaKey \/ e.altKey \/ e.key \in allowedKeys THEN FALSE
    ELSE IF ~DigitKey(e.key) THEN TRUE
    ELSE Len(getPhoneDigits(phoneNumber)) >= 10

\* event.key of the keys pressed: digits, the allowed keys, characters that are
\* no digits, and other named keys
Keys ==
    {"0", "5", "9"} \cup allowedKeys
    \cup {"a", "v", "-", "(", " ", "+", "Enter", "ArrowUp", "Escape", "Shift", "F5"}

KeyEvents ==
    {[type |-> "keydown", key |-> k, ctrlKey |-> c, metaKey |-> m, altKey |-> a,
      defaultPrevented |-> FALSE, done |-> FALSE] :
        k \in Keys, c \in BOOLEAN, m \in BOOLEAN, a \in BOOLEAN}

\* the numbers the phone field can hold: the mask of 0..10 digits
StoredPhones ==
    {formatPhoneNumber(SubSeq(<<"5", "5", "5", "1", "2", "3", "4", "5", "6", "7">>, 1, n)) :
        n \in 0..10}

InitKeys ==
    /\ values \in {[initialFormValues EXCEPT !.phoneNumber = p] : p \in StoredPhones}
    /\ errors = [f \in Fields |-> Undefined]
    /\ isSubmitting = FALSE
    /\ submitted = FALSE
    /\ submitError = Null
    /\ inflight = {}
    /\ attempts = 0
    /\ fetches = 0
    /\ env = Configured
    /\ request = NoBody
    /\ handled = Unhandled
    /\ event \in KeyEvents
    /\ Mount

\* the key-down event of the phone input is handled
KeyDown ==
    /\ ~event.done
    /\ ~submitted
    /\ event' = [event EXCEPT !.defaultPrevented = onKeyDown(event, values.phoneNumber),
                              !.done = TRUE]
    /\ UNCHANGED <<formVars, netVars, serverVars, touchVars>>

NextKeys == KeyDown

SpecKeys == InitKeys /\ [][NextKeys]_vars

-----------------------------------------------------------------------------
(* MobileTouchEffect under any touch events, media changes and timer firings *)

Without(list, i) == SubSeq(list, 1, i - 1) \o SubSeq(list, i + 1, Len(list))

\* the media query starts or stops matching (or the first animation frame
\* reads it): the second effect attaches or detaches the four listeners
MediaChange ==
    /\ isMobile' = ~isMobile
    /\ UNCHANGED <<glow, touches, timers, lastTouch>>
    /\ UNCHANGED <<formVars, netVars, serverVars, event>>

\* a finger is put on the screen
TouchStart(p) ==
    /\ Len(touches) < MaxTouches
    /\ touches' = Append(touches, p)
    /\ lastTouch' = [type |-> "touchstart", heard |-> isMobile]
    /\ IF isMobile THEN handleTouchStart(TouchEvent(Append(touches, p)))
                   ELSE glow' = glow
    /\ UNCHANGED <<isMobile, timers>>
    /\ UNCHANGED <<formVars, netVars, serverVars, event>>

\* a finger on the screen moves
TouchMove(i, p) ==
    /\ i \in DOMAIN touches
    /\ p # touches[i]
    /\ touches' = [touches EXCEPT ![i] = p]
    /\ IF isMobile THEN handleTouchMove(TouchEvent([touches EXCEPT ![i] = p]))
                   ELSE glow' = glow
    /\ UNCHANGED <<isMobile, timers, lastTouch>>
    /\ UNCHANGED <<formVars, netVars, serverVars, event>>

\* a finger is lifted
TouchEnd(i) ==
    /\ i \in DOMAIN touches
    /\ isMobile => timers < MaxTimers
    /\ touches' = Without(touches, i)
    /\ lastTouch' = [type |-> "touchend", heard |-> isMobile]
    /\ IF isMobile THEN handleTouchEnd ELSE UNCHANGED <<glow, timers>>
    /\ UNCHANGED isMobile
    /\ UNCHANGED <<formVars, netVars, serverVars, event>>

\* the browser takes the touches over (a scroll, a system gesture)
TouchCancel ==
    /\ touches # <<>>
    /\ touches' = <<>>
    /\ lastTouch' = [type |-> "touchcancel", heard |-> isMobile]
    /\ IF isMobile THEN handleTouchCancel ELSE glow' = glow
    /\ UNCHANGED <<isMobile, timers>>
    /\ UNCHANGED <<formVars, netVars, serverVars, event>>

\* a timer of handleTouchEnd expires
Timeout ==
    /\ timers > 0
    /\ timers' = timers - 1
    /\ clearGlow
    /\ UNCHANGED <<isMobile, touches, lastTouch>>
    /\ UNCHANGED <<formVars, netVars, serverVars, event>>

NextTouch ==
    \/ MediaChange
    \/ \E p \in Points : TouchStart(p)
    \/ \E i \in 1..MaxTouches : \E p \in Points : TouchMove(i, p)
    \/ \E i \in 1..MaxTouches : TouchEnd(i)
    \/ TouchCancel
    \/ Timeout

SpecTouch == Init /\ [][NextTouch]_vars

-----------------------------------------------------------------------------
(* Properties of the endpoint, under SpecEndpoint *)

\* neither variable of the environment holds a key
NoKey(e) ==
    /\ e.RESEND_API_KEY \in {Undefined, ""}
    /\ e.NEXT_PUBLIC_RESEND_API_KEY \in {Undefined, ""}

KeyConfigured(e) == ~NoKey(e)

Answered(status, body) ==
    handled.response = [status |-> status, parses |-> TRUE, body |-> body]

\* a text that is empty after trimming
Blank(s) == \A i \in 1..Len(s) : s[i] \in {" ", "\t", "\n"}

\* the body lacks the field (absent or null) or carries it as blank text
Lacks(body, f) ==
    \/ body.kind # "object"
    \/ body.fields[f].t \in {"absent", "null"}
    \/ body.fields[f].t = "text" /\ Blank(body.fields[f].s)

LacksRequired(body) ==
    \E f \in {"fullName", "phoneNumber", "email", "revenueStream"} : Lacks(body, f)

\* a field of the body that is neither text nor null
NonText(body, f) == body.kind = "object" /\ body.fields[f].t = "other"

AnyNonText(body) == \E f \in Fields : NonText(body, f)

\* C1: without a key in the environment, every request, whatever its body, is
\* answered 500 with the fixed configuration message, and send is not invoked.
C1_Unconfigured ==
    (handled # Unhandled /\ NoKey(env)) =>
        /\ Answered(500, [error |->
              "Email service is not configured. Set RESEND_API_KEY in your server environment."])
        /\ handled.calls = <<>>
        /\ handled.served.sends = 0

\* C1: a request with a malformed body was handled without a key
C1_Witness == handled # Unhandled /\ NoKey(env) /\ request.kind = "malformed"

\* C2 as stated: with a key, every request whose JSON body (an object) lacks a
\* required field, or carries it as blank text, is answered 400 and send is not
\* invoked.
C2_Original ==
    (handled # Unhandled /\ KeyConfigured(env) /\ request.kind = "object"
        /\ LacksRequired(request)) =>
        /\ Answered(400, [error |-> "Missing required fields."])
        /\ handled.calls = <<>>

\* C2 as amended: with a key, every request whose JSON body is not null, carries
\* no field that is neither text nor null, and lacks a required field or carries
\* it as blank text, is answered 400 "Missing required fields." and send is not
\* invoked.
C2_MissingRequired ==
    (handled # Unhandled /\ KeyConfigured(env) /\ request.kind \in {"object", "scalar"}
        /\ ~AnyNonText(request) /\ LacksRequired(request)) =>
        /\ Answered(400, [error |-> "Missing required fields."])
        /\ handled.calls = <<>>
        /\ handled.served.sends = 0

\* C2: a request that carries only a blank revenue stream among the missing was
\* handled with a key
C2_Witness ==
    /\ handled # Unhandled /\ KeyConfigured(env) /\ request.kind = "object"
    /\ ~AnyNonText(request)
    /\ ~Lacks(request, "fullName") /\ ~Lacks(request, "phoneNumber") /\ ~Lacks(request, "email")
    /\ request.fields.revenueStream = JsonText(<<" ">>)

\* C3: when send returns an error, the answer is 502 "Resend error: <m>", <m>
\* the provider's message if it is a non-empty text and "Unable to send email."
\* otherwise; the answer is never 200.
C3_RelayError ==
    (handled # Unhandled /\ handled.served.relay.kind = "error") =>
        LET r == handled.served.relay
            m == IF r.isString /\ r.message # "" THEN r.message ELSE "Unable to send email."
        IN /\ Answered(502, [error |-> "Resend error: " \o m])
           /\ handled.response.status # 200
           /\ (r = RelayError("quota exceeded") =>
                  Answered(502, [error |-> "Resend error: quota exceeded"]))

\* C3: send returned an error without a usable message
C3_Witness ==
    /\ handled # Unhandled
    /\ handled.served.relay \in {RelayError(""), RelayErrorNoMessage}
    /\ handled.served.sends = 1

\* the first field, in the order the handler reads them, that is no text
FirstNonText(body) ==
    IF NonText(body, "fullName") THEN "fullName"
    ELSE IF NonText(body, "phoneNumber") THEN "phoneNumber"
    ELSE IF NonText(body, "email") THEN "email"
    ELSE IF NonText(body, "storeUrl") THEN "storeUrl"
    ELSE IF NonText(body, "revenueStream") THEN "revenueStream"
    ELSE "message"

\* C5 as stated: with a key, a malformed body, a body that is not an object, a
\* body with a field that is not text, or a throwing relay call is answered 500.
C5_Original ==
    (handled # Unhandled /\ KeyConfigured(env)
        /\ \/ request.kind \in {"malformed", "null", "scalar"}
           \/ \E f \in Fields : request.fields[f].t \in {"null", "other"}
           \/ handled.served.relay.kind = "throw") =>
        handled.response.status = 500

\* C5 as amended: with a key, every exception raised while handling (a malformed
\* body, a null body, a field that is neither text nor null, the relay call
\* throwing) is answered 500 with the message of the thrown Error, or "Unable to
\* submit request." when the thrown value is no Error; a body that is another
\* JSON value or a field that is null raises no exception.
C5_Exceptions ==
    (handled # Unhandled /\ KeyConfigured(env)) =>
        /\ request.kind = "malformed" =>
              Answered(500, [error |-> "Unexpected token in JSON"])
        /\ request.kind = "null" =>
              Answered(500, [error |-> "Cannot read properties of null (reading 'fullName')"])
        /\ AnyNonText(request) =>
              Answered(500, [error |->
                  "body." \o FirstNonText(request) \o "?.trim is not a function"])
        /\ handled.served.relay.kind = "throw" =>
              Answered(500, [error |->
                  IF handled.served.relay.isError
                  THEN handled.served.relay.message
                  ELSE "Unable to submit request."])
        /\ (request.kind \in {"object", "scalar"} /\ ~AnyNonText(request)
              /\ handled.served.relay.kind # "throw") =>
              handled.response.status \in {200, 400, 502}
        /\ handled.response.status \in {200, 400, 500, 502}

\* C5: the relay call threw a value that is no Error
C5_Witness ==
    /\ handled # Unhandled /\ KeyConfigured(env)
    /\ handled.served.relay = RelayThrows(NonError("boom"))
    /\ handled.served.sends = 1

-----------------------------------------------------------------------------
(* Properties of the pipeline, under Spec *)

AllEmpty == [f \in Fields |-> <<>>]

Responses == {a \in inflight : a.stage = "response"}
Pending == {a \in inflight : a.stage = "request"}

\* C4: a valid submission of the form, handled with a key, reaches the relay
\* once, and when the relay reports success the endpoint answers 200
\* {success: true}; when that response reaches the form, the form is Succeeded
\* with every field empty, and stays so.
C4_RoundTrip ==
    /\ [](\A a \in Responses :
            (a.served.byHandler /\ KeyConfigured(a.served.env)) =>
                /\ a.served.sends = 1
                /\ a.served.relay = RelayOk =>
                      a.response = [status |-> 200, parses |-> TRUE, body |-> [success |-> TRUE]])
    /\ [][\A a \in Responses :
            (a.response.status = 200 /\ Deliver(a)) =>
                (submitted' /\ values' = AllEmpty /\ ~isSubmitting')]_vars
    /\ [](submitted => values = AllEmpty)
    /\ [][submitted => submitted']_vars

\* C4: the form has succeeded after a submit, and nothing is in flight
C4_Witness == submitted /\ values = AllEmpty /\ fetches = 1 /\ inflight = {}

\* C6: handling one request invokes send at most once, a submit attempt issues
\* one request, a request is handled once, and a request is issued only by a
\* step that is a new submit attempt: nothing follows a failure by itself.
C6_NoRetry ==
    /\ [](\A a \in Responses : a.served.sends <= 1)
    /\ [](fetches = attempts /\ Cardinality(inflight) <= fetches)
    /\ [](\A a, b \in inflight : a.id = b.id => a = b)
    /\ [][fetches' # fetches =>
            (fetches' = fetches + 1 /\ attempts' = attempts + 1 /\ Submit)]_vars
    /\ [][\A b \in Pending' : b \in Pending \/ (b.id = fetches' /\ fetches' = fetches + 1)]_vars

\* C6: a submit failed on a relay error and was not sent again
C6_Witness ==
    /\ fetches = 1 /\ inflight = {} /\ ~isSubmitting
    /\ submitError = "Resend error: quota exceeded"

\* a text of the shape the phone mask gives to 0..10 digits
Masked(s) ==
    LET n == Len(s)
        digit(i) == s[i] \in {"0", "1", "2", "3", "4", "5", "6", "7", "8", "9"}
        area == n >= 6 /\ s[1] = "(" /\ digit(2) /\ digit(3) /\ digit(4) /\ s[5] = ")" /\ s[6] = " "
    IN \/ n <= 3 /\ \A i \in 1..n : digit(i)
       \/ n \in 7..9 /\ area /\ \A i \in 7..n : digit(i)
       \/ n \in 11..14 /\ area /\ digit(7) /\ digit(8) /\ digit(9) /\ s[10] = "-"
            /\ \A i \in 11..n : digit(i)

\* C9: the phone number the form holds is always in mask form, and every
\* request body carries it as "(DDD) DDD-DDDD".
C9_PhoneMasked ==
    /\ Masked(values.phoneNumber)
    /\ \A a \in Pending :
          /\ a.body.kind = "object"
          /\ a.body.fields.phoneNumber.t = "text"
          /\ Len(a.body.fields.phoneNumber.s) = 14
          /\ Masked(a.body.fields.phoneNumber.s)

\* C9: a request is in flight and the form holds a partly entered number
C9_Witness == Pending # {} /\ Len(values.phoneNumber) = 7

\* C10: a submit whose validation finds errors issues no request, leaves the
\* submitting flag and the field values as they were, and shows exactly the
\* errors validation returned.
C10_Abort ==
    [][(Submit /\ HasErrors(validateForm(values))) =>
          /\ inflight' = inflight
          /\ fetches' = fetches
          /\ attempts' = attempts
          /\ isSubmitting' = isSubmitting
          /\ values' = values
          /\ errors' = validateForm(values)]_vars

\* C10: a submit was aborted before any request: errors are shown, nothing sent
C10_Witness ==
    /\ errors.storeUrl = "Use a full URL, including https://"
    /\ errors.fullName = Undefined
    /\ fetches = 0 /\ ~isSubmitting /\ inflight = {}

-----------------------------------------------------------------------------
(* Properties of validateForm and isFormReady, under SpecValidate *)

\* C7: for any field values, once a submit has run validation, the error set
\* it returned is empty exactly when the form is ready.
C7_ValidateIffReady ==
    (attempts = 1 \/ HasErrors(errors)) =>
        /\ errors = validateForm(values)
        /\ ~HasErrors(errors) <=> isFormReady(values)

\* C25: for any field values, a request the form sends (validation found no
\* error) passes the required-field check of the endpoint: handled with a key,
\* it is never answered 400 "Missing required fields.".
C25_ClientImpliesServer ==
    \A a \in Responses :
        (a.served.byHandler /\ KeyConfigured(a.served.env)) =>
            /\ a.response.status # 400
            /\ a.response.body # [error |-> ErrorText("Missing required fields.")]

-----------------------------------------------------------------------------
(* Properties of the phone mask, under SpecPhone *)

\* the places of the digits of a text, and its first ten digits in order
DigitPlaces(raw) == {i \in 1..Len(raw) : raw[i] \in {"0", "1", "2", "3", "4", "5", "6", "7", "8", "9"}}

FirstTen(raw) ==
    LET places == DigitPlaces(raw)
        nth(k) == CHOOSE i \in places : Cardinality({j \in places : j <= i}) = k
    IN [k \in 1..Min(10, Cardinality(places)) |-> raw[nth(k)]]

\* the digits within the mask
MaskOf(d) ==
    LET n == Len(d) IN
    IF n <= 3 THEN d
    ELSE IF n <= 6
         THEN <<"(", d[1], d[2], d[3], ")", " ">> \o [k \in 1..(n - 3) |-> d[k + 3]]
         ELSE <<"(", d[1], d[2], d[3], ")", " ", d[4], d[5], d[6], "-">>
              \o [k \in 1..(n - 6) |-> d[k + 6]]

\* C8: the phone field stores the first ten digits of the raw text in the mask:
\* bare for 0..3 digits, "(AAA) " and the rest for 4..6, "(AAA) BBB-" and the
\* rest for 7..10; never more than 10 digits, and 14 characters for 10 digits.
C8_PhoneFormat ==
    event.done =>
        /\ values.phoneNumber = MaskOf(FirstTen(event.value))
        /\ Cardinality(DigitPlaces(values.phoneNumber)) <= 10
        /\ Cardinality(DigitPlaces(event.value)) >= 10 =>
              /\ Len(values.phoneNumber) = 14
              /\ values.phoneNumber[1] = "(" /\ values.phoneNumber[5] = ")"
              /\ values.phoneNumber[6] = " " /\ values.phoneNumber[10] = "-"

\* C8: a raw text of more than ten digits, and other characters, was entered
C8_Witness ==
    /\ event.done
    /\ Cardinality(DigitPlaces(event.value)) = 11
    /\ Len(event.value) = 12
    /\ Len(values.phoneNumber) = 14

\* C30: the phone mask is idempotent and keeps the digits: the mask of a stored
\* (masked) value is that value, and the digits of the stored value are the
\* digits of the text it was made from, the first ten in their order; so
\* after a character of a masked value is deleted the stored value has the
\* remaining digits, none lost and in the same order.
C30_MaskIdempotent ==
    event.done =>
        /\ formatPhoneNumber(values.phoneNumber) = values.phoneNumber
        /\ getPhoneDigits(values.phoneNumber) = getPhoneDigits(event.value)
        /\ FirstTen(values.phoneNumber) = FirstTen(event.value)

\* C30: the "-" or a digit of the masked ten-digit value was deleted, and the
\* rest masked again
C30_Witness ==
    /\ event.done
    /\ Len(event.value) = 13 /\ event.value[1] = "(" /\ event.value[6] = " "
    /\ Cardinality(DigitPlaces(event.value)) = 9
    /\ Len(values.phoneNumber) = 13 /\ values.phoneNumber # event.value

-----------------------------------------------------------------------------
(* Properties of the rendered form, under SpecUI *)

\* C11: at most one request of the form is in flight at any time: the
\* submitting flag is true while a request is in flight, no submit starts
\* while it is true, and a submit starts only with nothing in flight.
C11_SingleFlight ==
    /\ [](Cardinality(inflight) <= 1)
    /\ []((inflight # {}) => isSubmitting)
    /\ [][isSubmitting => (fetches' = fetches /\ \A a \in inflight' : a.id <= fetches)]_vars
    /\ [][fetches' # fetches => (inflight = {} /\ Cardinality(inflight') = 1)]_vars

\* C11: the second attempt of the form is in flight, alone, after the first
\* one failed
C11_Witness ==
    /\ fetches = 2 /\ isSubmitting
    /\ \E a \in inflight : a.id = 2 /\ inflight = {a}

\* C12: every attempt that passed validation ends: its request leaves the
\* flight, and in the state it ends in the submitting flag is false and the
\* form is Succeeded (submitted) or Failed (a submit error is set), whether it
\* ended by a success status, a non-success status or a transport failure; the
\* flag is true only while the attempt's request is in flight.
C12_AttemptEnds ==
    /\ [](isSubmitting => inflight # {})
    /\ [][\A a \in inflight :
            (a \notin inflight' /\ \A b \in inflight' : b.id # a.id) =>
                (~isSubmitting' /\ (submitted' \/ submitError' # Null))]_vars
    /\ ((inflight # {}) ~>
           (inflight = {} /\ ~isSubmitting /\ (submitted \/ submitError # Null)))

\* C12: an attempt has ended by a transport failure
C12_Witness ==
    /\ fetches = 1 /\ inflight = {} /\ ~isSubmitting /\ ~submitted
    /\ submitError = "Failed to fetch"

\* the state of the form as it is rendered: the thanks panel once submitted,
\* else the form, with "Submitting..." while the flag is true, else with the
\* submit error if there is one
Phase ==
    IF submitted THEN "Succeeded"
    ELSE IF isSubmitting THEN "Submitting"
    ELSE IF submitError # Null THEN "Failed"
    ELSE "Editing"

Moves ==
    {<<"Editing", "Submitting">>, <<"Submitting", "Succeeded">>, <<"Submitting", "Failed">>,
     <<"Failed", "Editing">>, <<"Failed", "Submitting">>}

\* C13: the form changes state only along Editing -> Submitting ->
\* {Succeeded | Failed} and Failed -> Editing or Failed -> Submitting;
\* Succeeded is terminal: from then on the form stays Succeeded, its values and
\* errors do not change, no request is in flight and none is issued.
C13_StateMachine ==
    /\ [][Phase' # Phase => <<Phase, Phase'>> \in Moves]_vars
    /\ [](Phase = "Succeeded" => inflight = {})
    /\ [][Phase = "Succeeded" =>
            /\ Phase' = "Succeeded"
            /\ values' = values /\ errors' = errors /\ submitError' = submitError
            /\ fetches' = fetches /\ inflight' = inflight]_vars

\* C13: the form has succeeded on its second attempt, after a failure, and the
\* server was deployed anew afterwards
C13_Witness == Phase = "Succeeded" /\ fetches = 2 /\ env = Unconfigured

\* a field of the rendered form is changed
AnyChange == \E key \in Fields : \E value \in Inputs(key) : Change(key, value)

\* C14: a change of any field of a Failed form clears the submit error and
\* returns the form to Editing, and the error stays cleared until another
\* attempt ends in failure.
C14_EditClearsError ==
    /\ [][(Phase = "Failed" /\ AnyChange) => (submitError' = Null /\ Phase' = "Editing")]_vars
    /\ [][\A key \in Fields : \A value \in Inputs(key) :
            Change(key, value) => submitError' = Null]_vars
    /\ [][(submitError = Null /\ submitError' # Null) => (isSubmitting /\ ~isSubmitting')]_vars

\* C14: the first attempt failed and a field was changed afterwards
C14_Witness ==
    /\ Phase = "Editing" /\ fetches = 1 /\ inflight = {}
    /\ values.message = <<"h", "i">>

\* the body parses as JSON and has an `error` that is a text, not empty
HasErrorText(response) ==
    /\ response.parses
    /\ "error" \in DOMAIN response.body
    /\ response.body.error.t = "text"
    /\ response.body.error.s # ""

\* C15: when a response with a non-success status reaches the form, the form
\* is Failed with the body's `error` text if the body parses as JSON and has
\* one, and with "Request failed" otherwise; the field values are kept and the
\* form is not Succeeded.
C15_NonSuccess ==
    [][\A a \in Responses :
          (a.response.status \notin 200..299 /\ Deliver(a)) =>
              /\ submitError' = IF HasErrorText(a.response)
                                THEN a.response.body.error.s
                                ELSE "Request failed"
              /\ values' = values
              /\ ~submitted' /\ ~isSubmitting']_vars

\* C16: when the request fails in transport (fetch rejects, no response), the
\* form is Failed with the message "Something went wrong. Please try again in
\* a moment.".
C16_TransportFailure ==
    [][\A a \in inflight : \A thrown \in FetchRejections :
          TransportFail(a, thrown) =>
              /\ submitError' = "Something went wrong. Please try again in a moment."
              /\ ~submitted' /\ ~isSubmitting']_vars

\* C18 as stated: once a field was changed or a submit ran, a field that has
\* no entry in the error set is valid: validateForm reports nothing for it.
C18_Original ==
    (values # initialFormValues \/ attempts > 0) =>
        \A f \in Fields : errors[f] = Undefined => validateForm(values)[f] = Undefined

\* C18 as amended: the error set is computed fully on submit only; a change
\* of a field removes that field's entry, whether the new value is valid or
\* not, and leaves the other entries as they are. So, while the form is
\* rendered, a field that has an entry is not valid, and the entry is the
\* message validation gives for its value; a field without entry need not be
\* valid.
C18_ErrorSet ==
    /\ [][attempts' # attempts => errors' = validateForm(values)]_vars
    /\ [][\A f \in Fields : (values'[f] # values[f] /\ ~submitted') => errors'[f] = Undefined]_vars
    /\ [][errors' # errors =>
            \/ Submit /\ errors' = validateForm(values)
            \/ \E key \in Fields : \E value \in Inputs(key) :
                  Change(key, value) /\ errors' = [errors EXCEPT ![key] = Undefined]]_vars
    /\ [](~submitted =>
            \A f \in Fields : errors[f] # Undefined => errors[f] = validateForm(values)[f])

\* C18: after a submit found errors, an invalid store URL was entered: the
\* field has no entry and is not valid, while the entries of the other fields
\* are still shown
C18_Witness ==
    /\ errors.storeUrl = Undefined
    /\ validateForm(values).storeUrl # Undefined
    /\ errors.fullName = "Full name is required."

\* C22: a change of field `key` changes only the value of that field, clears
\* the error entry of that field and the submit error, and leaves the values
\* and error entries of the other fields, the submitting flag, the succeeded
\* flag and the requests in flight as they were.
C22_ChangeFrame ==
    [][(inflight' = inflight /\ attempts' = attempts /\ env' = env) =>
         \A key \in Fields : \A value \in Inputs(key) :
            Change(key, value) =>
                /\ \A f \in Fields \ {key} : values'[f] = values[f] /\ errors'[f] = errors[f]
                /\ errors'[key] = Undefined
                /\ submitError' = Null
                /\ isSubmitting' = isSubmitting /\ submitted' = submitted
                /\ fetches' = fetches]_vars

\* C22: after a submit found errors, the full name was entered: its entry is
\* gone, the entries of the other fields are kept
C22_Witness ==
    /\ values.fullName = <<"A", "l">> /\ errors.fullName = Undefined
    /\ errors.email = "Email is required."
    /\ errors.phoneNumber = "Phone number is required."
    /\ attempts = 0 /\ submitError = Null

-----------------------------------------------------------------------------
(* More properties of the endpoint, under SpecEndpoint *)

RequiredFields == {"fullName", "phoneNumber", "email", "revenueStream"}

\* the body carries the field as text that is not blank
Present(body, f) ==
    body.kind = "object" /\ body.fields[f].t = "text" /\ ~Blank(body.fields[f].s)

\* C17 as stated: with a key, every request whose four required fields are
\* not empty after trimming reaches the relay's send.
C17_Original ==
    (handled # Unhandled /\ KeyConfigured(env)
        /\ \A f \in RequiredFields : Present(request, f)) =>
        handled.served.sends = 1

\* C17 as amended: with a key, every request whose four required fields are
\* not empty after trimming, and whose storeUrl and message are text, null or
\* absent, reaches the relay's send exactly once, whatever the shape of its
\* phone number, e-mail and store URL; and among the requests with no field
\* that is neither text nor null, those are the only ones that reach it.
C17_PresenceOnly ==
    (handled # Unhandled /\ KeyConfigured(env)) =>
        /\ ((\A f \in RequiredFields : Present(request, f)) /\ ~AnyNonText(request)) =>
              /\ handled.served.sends = 1
              /\ Len(handled.calls) = 1
              /\ handled.response.status # 400
        /\ (handled.served.sends > 0 /\ ~AnyNonText(request)) =>
              \A f \in RequiredFields : Present(request, f)

\* C17: a request with a two-digit phone number, an e-mail without a dot and a
\* store URL without scheme was sent to the relay
C17_Witness ==
    /\ handled # Unhandled /\ KeyConfigured(env)
    /\ request.kind = "object"
    /\ request.fields.phoneNumber = JsonText(<<"1", "2">>)
    /\ request.fields.email = JsonText(<<" ", "a", "@", "b", " ">>)
    /\ request.fields.storeUrl = JsonText(<<"x", ".", "c">>)
    /\ handled.served.sends = 1 /\ handled.response.status = 200

\* the text of a field of the request without the white space around it, or
\* the empty text when the field is not a text
Stripped(f) ==
    LET v == request.fields[f]
        s == v.s
        inner == {i \in 1..Len(s) : s[i] \notin {" ", "\t", "\n"}}
        first == CHOOSE i \in inner : \A j \in inner : i <= j
        last == CHOOSE i \in inner : \A j \in inner : j <= i
    IN IF v.t # "text" \/ inner = {} THEN ""
       ELSE Str([k \in 1..(last - first + 1) |-> s[first + k - 1]])

\* C20: every request that reaches the relay makes one send, from the fixed
\* sender to the one fixed recipient, with subject "New Stratova call request:
\* <fullName>", replyTo the e-mail, and a text that lists the trimmed fields in
\* the order full name, phone number, e-mail, store URL, revenue stream,
\* message, with "N/A (needs build from scratch)" for an empty or absent store
\* URL and "N/A" for an empty or absent message.
C20_SendArgs ==
    (handled # Unhandled /\ handled.calls # <<>>) =>
        LET call == handled.calls[1]
            storeUrl == IF Stripped("storeUrl") = "" THEN "N/A (needs build from scratch)"
                        ELSE Stripped("storeUrl")
            message == IF Stripped("message") = "" THEN "N/A" ELSE Stripped("message")
        IN /\ Len(handled.calls) = 1
           /\ call.from = "onboarding@resend.dev"
           /\ call.to = <<"timothytitenokspam@gmail.com">>
           /\ call.subject = "New Stratova call request: " \o Stripped("fullName")
           /\ call.replyTo = Stripped("email")
           /\ call.text = "New book a call request\nFull name: " \o Stripped("fullName")
                           \o "\nPhone number: " \o Stripped("phoneNumber")
                           \o "\nEmail: " \o Stripped("email")
                           \o "\nStore URL: " \o storeUrl
                           \o "\nRevenue stream: " \o Stripped("revenueStream")
                           \o "\nMessage: " \o message

\* C20: a request without store URL and with a blank message was sent to the
\* relay, its name and e-mail given with white space around them
C20_Witness ==
    /\ handled # Unhandled /\ Len(handled.calls) = 1
    /\ request.fields.storeUrl = Absent
    /\ request.fields.message = JsonText(<<" ">>)
    /\ request.fields.fullName = JsonText(<<" ", "A", "l", " ">>)
    /\ handled.calls[1].subject = "New Stratova call request: Al"
    /\ handled.calls[1].replyTo = "a@b"

\* C24: the endpoint answers 200 {success: true} only if, for that request,
\* a key was configured, the four required fields were not empty after
\* trimming, and send was invoked exactly once and returned no error; the body
\* {success: true} goes with status 200 only, and every status is one of 200,
\* 400, 500, 502.
C24_SuccessOnlyIf ==
    handled # Unhandled =>
        /\ handled.response.status \in {200, 400, 500, 502}
        /\ (handled.response.status = 200 \/ "success" \in DOMAIN handled.response.body) =>
              /\ Answered(200, [success |-> TRUE])
              /\ KeyConfigured(env)
              /\ \A f \in RequiredFields : Present(request, f)
              /\ Len(handled.calls) = 1
              /\ handled.served.sends = 1
              /\ handled.served.relay = RelayOk

\* C24: a request was answered 200 under a key given by the public variable
\* only
C24_Witness ==
    /\ handled # Unhandled
    /\ Answered(200, [success |-> TRUE])
    /\ env.RESEND_API_KEY = "" /\ env.NEXT_PUBLIC_RESEND_API_KEY = "re_public_key"
    /\ request.fields.message = Absent

\* the value of an environment variable is a key: it is set and not empty
IsKey(v) == v # Undefined /\ v # ""

\* C29: the endpoint takes the email service as configured when RESEND_API_KEY
\* or NEXT_PUBLIC_RESEND_API_KEY is a non-empty value, and gives the provider's
\* client RESEND_API_KEY when both are; it answers the configuration 500 only
\* when both are absent or empty; the variables are read on every request, so
\* a request handled after a change of the environment is answered by the
\* environment of that moment.
C29_KeyLookup ==
    handled # Unhandled =>
        /\ (handled.response.status = 500
            /\ handled.response.body = ConfigErrorResponse.body) <=>
                (~IsKey(env.RESEND_API_KEY) /\ ~IsKey(env.NEXT_PUBLIC_RESEND_API_KEY))
        /\ handled.served.env = env
        /\ handled.served.sends > 0 =>
              /\ IsKey(env.RESEND_API_KEY) => handled.served.client = env.RESEND_API_KEY
              /\ ~IsKey(env.RESEND_API_KEY) =>
                    /\ IsKey(env.NEXT_PUBLIC_RESEND_API_KEY)
                    /\ handled.served.client = env.NEXT_PUBLIC_RESEND_API_KEY
        /\ handled.served.sends = 0 => handled.served.client = Undefined

C29_Witness ==
    /\ handled # Unhandled /\ handled.served.sends = 1
    /\ env = [RESEND_API_KEY |-> "re_server_key", NEXT_PUBLIC_RESEND_API_KEY |-> "re_public_key"]
    /\ handled.served.client = "re_server_key"
    /\ handled.response.status = 200

-----------------------------------------------------------------------------
(* Properties of the phone field's key-down handler, under SpecKeys *)

NamedPassKeys == {"Backspace", "Delete", "ArrowLeft", "ArrowRight", "Tab", "Home", "End"}
DigitKeys == {"0", "1", "2", "3", "4", "5", "6", "7", "8", "9"}

\* the number of digits the stored phone number holds
StoredDigits == Cardinality(DigitPlaces(values.phoneNumber))

Modified == event.ctrlKey \/ event.metaKey \/ event.altKey

\* C19 as stated: every keystroke that is neither a digit nor a deletion or
\* navigation key is rejected, a digit is rejected when the stored number holds
\* 10 digits and accepted below, and the deletion and navigation keys pass.
C19_Original ==
    event.done =>
        /\ (event.key \notin DigitKeys \cup NamedPassKeys) => event.defaultPrevented
        /\ (event.key \in DigitKeys /\ StoredDigits >= 10) => event.defaultPrevented
        /\ (event.key \in DigitKeys /\ StoredDigits < 10) => ~event.defaultPrevented
        /\ (event.key \in NamedPassKeys) => ~event.defaultPrevented

\* C19 as amended: with none of Ctrl, Meta and Alt held, a keystroke that is
\* neither a digit nor a deletion or navigation key is rejected, a digit is
\* rejected when the stored number holds 10 digits and accepted below; the
\* deletion and navigation keys always pass, and so does every keystroke made
\* with Ctrl, Meta or Alt held.
C19_KeyDown ==
    event.done =>
        /\ (~Modified /\ event.key \notin DigitKeys \cup NamedPassKeys) => event.defaultPrevented
        /\ (~Modified /\ event.key \in DigitKeys /\ StoredDigits >= 10) => event.defaultPrevented
        /\ (event.key \in DigitKeys /\ StoredDigits < 10) => ~event.defaultPrevented
        /\ (event.key \in NamedPassKeys) => ~event.defaultPrevented
        /\ Modified => ~event.defaultPrevented

\* C19: a digit was pressed, with no modifier, on a full number and rejected
C19_Witness ==
    /\ event.done /\ event.key = "5" /\ ~Modified
    /\ Len(values.phoneNumber) = 14
    /\ event.defaultPrevented

-----------------------------------------------------------------------------
(* More properties of the rendered form, under SpecUI *)

\* readiness of the field values: a name, ten digits, an e-mail of the e-mail
\* shape, no store URL or one of the URL shape, a revenue stream
Ready ==
    /\ ~Blank(values.fullName)
    /\ Cardinality(DigitPlaces(values.phoneNumber)) = 10
    /\ isValidEmail(values.email)
    /\ (Blank(values.storeUrl) \/ isValidStoreUrl(values.storeUrl))
    /\ ~Blank(values.revenueStream)

\* C23: the submit button is enabled exactly when the field values are ready
\* and no request is in flight, and disabled in every other state.
C23_SubmitEnabled ==
    /\ ~submitDisabled <=> (Ready /\ inflight = {})
    /\ ~submitDisabled <=> (Ready /\ ~isSubmitting)

\* C23: the values are ready and the button is disabled, a request being in
\* flight
C23_Witness == Ready /\ inflight # {} /\ submitDisabled

\* C27: at most one of these holds of a form instance: a submit is in flight
\* (isSubmitting), the form has succeeded (submitted), a submit error is shown
\* (submitError is not null); a new attempt started from Failed clears the
\* error of the previous one, and a succeeded form shows no error.
C27_ExclusivePhases ==
    /\ [](/\ ~(isSubmitting /\ submitted)
          /\ ~(isSubmitting /\ submitError # Null)
          /\ ~(submitted /\ submitError # Null))
    /\ [][(submitError # Null /\ attempts' # attempts) =>
             (isSubmitting' /\ submitError' = Null /\ ~submitted')]_vars
    /\ [][(~submitted /\ submitted') => (submitError = Null /\ submitError' = Null)]_vars

C27_Witness ==
    /\ attempts = 2 /\ Phase = "Submitting" /\ submitError = Null
    /\ \E a \in Pending : a.id = 2

\* C28: field edits made while a submit is in flight do not alter the request
\* already sent: the body of a request is the values that passed validation
\* when submit was invoked, and no later step changes it. When the request
\* succeeds the form ends with all fields empty, whatever was edited meanwhile;
\* when it fails (a failure response or a lost request) the values, edits
\* included, are kept and a failure message is set.
C28_EditsInFlight ==
    /\ [][\A a \in Pending' :
             \/ a \in Pending
             \/ /\ a.id = fetches' /\ attempts' = attempts + 1
                /\ a.body = Stringify(values)
                /\ ~HasErrors(validateForm(values))]_vars
    /\ [][(Pending # {} /\ values' # values) => inflight' = inflight]_vars
    /\ [][(~submitted /\ submitted') => values' = AllEmpty]_vars
    /\ [][(Cardinality(inflight') < Cardinality(inflight) /\ ~submitted') =>
             (values' = values /\ submitError' # Null /\ ~isSubmitting')]_vars

C28_Witness ==
    \E a \in Pending :
        /\ isSubmitting /\ values.message = <<"h", "i">>
        /\ a.body.fields.message = JsonText(<<>>)
        /\ a.body.fields.fullName = JsonText(values.fullName)

-----------------------------------------------------------------------------
(* Properties of MobileTouchEffect, under SpecTouch *)

\* C26: the glow created by a touchstart stays non-null until a touchend or a
\* touchcancel that occurs after that touchstart: while the last of these
\* events is a touchstart the listeners handled, the glow is not null, whatever
\* timers of earlier touchends expire in between.
C26_GlowOutlivesTimers ==
    (lastTouch.type = "touchstart" /\ lastTouch.heard) => ~glow.null

====
